---- MODULE Spec2Model ----
(***************************************************************************)
(* The WASIX libc shims ttyname_r and pthread_setname_np, the sigset_t     *)
(* declaration of sys/select.h, and the pselect contract declared there.   *)
(***************************************************************************)
EXTENDS Integers, Sequences, FiniteSets

VARIABLES
    \* ---- ttyname_r (unistd/ttyname_r.c) ----
    tty_call,       \* arguments and host answer of the last ttyname_r call, or NoCall
    name0,          \* the caller's buffer as it was when ttyname_r was entered
    name,           \* the caller's buffer after ttyname_r returned
    errno,          \* the thread's errno
    tty_ret,        \* value returned by the last ttyname_r call
    \* ---- sigset_t (sys/select.h) ----
    sig_pc,         \* "fresh" | "set" | "tested"
    set,            \* the _NSIG_WORDS words of the sigset_t object
    adjacent,       \* the word of memory that follows the sigset_t object
    sig_i,          \* the bit that was set
    sig_j,          \* the bit that was tested
    sig_test,       \* the result of that test
    \* ---- pthread_setname_np (thread/pthread_setname_np.c) ----
    unmodified_upstream, \* the build: TRUE iff __wasilibc_unmodified_upstream
    thread_name,    \* the host-visible name of every thread
    cancelstate,    \* the calling thread's cancel state
    hostcalls,      \* host calls issued by the last pthread_setname_np call
    sn_call,        \* arguments of the last pthread_setname_np call, or NoCall
    sn_ret,         \* value returned by the last pthread_setname_np call
    \* ---- pselect (sys/select.h, declaration) ----
    sigmask,        \* the signal mask active in the calling thread
    ps_pc,          \* "idle" | "waiting" | "returned"
    ps_arg,         \* the call's sets, timeout flag and mask argument
    ps_saved,       \* the mask pselect saved in order to restore it
    ps_before,      \* the mask that was active when pselect was called
    ps_ret          \* the value pselect returned and the sets it left

tty_vars == <<tty_call, name0, name, errno, tty_ret>>
sig_vars == <<sig_pc, set, adjacent, sig_i, sig_j, sig_test>>
sn_vars  == <<unmodified_upstream, thread_name, cancelstate, hostcalls, sn_call, sn_ret>>
ps_vars  == <<sigmask, ps_pc, ps_arg, ps_saved, ps_before, ps_ret>>
vars     == <<tty_vars, sig_vars, sn_vars, ps_vars>>

NoCall == [called |-> FALSE]

\* ------------------------------------------------------------------------
\* Bounds of the model
\* ------------------------------------------------------------------------
\* largest capacity (size argument) tried; the longest path needs 12 bytes
MaxSize == 13
\* descriptors tried are -1 .. MaxFd
MaxFd == 3
\* host error numbers tried are 1 .. MaxErrno
MaxErrno == 2
\* longest thread name tried; 16 is the first length the check rejects
MaxNameLen == 17
\* signal numbers used in masks are 1 .. MaxSig
MaxSig == 2
\* descriptors watched by pselect are 0 .. MaxWatchFd
MaxWatchFd == 1
\* bytes of the caller's buffer object: room beyond every capacity tried
MemLen == MaxSize + 2

\* ========================================================================
\* ttyname_r
\* ========================================================================
__WASI_BOOL_FALSE == 0
__WASI_BOOL_TRUE == 1
\* errno.h of the WASI build: ENOTTY is __WASI_ERRNO_NOTTY
ENOTTY == 59

\* The string literals of the function, as bytes (ASCII), without the NUL.
DevStdin  == <<47, 100, 101, 118, 47, 115, 116, 100, 105, 110>>
DevStdout == <<47, 100, 101, 118, 47, 115, 116, 100, 111, 117, 116>>
DevStderr == <<47, 100, 101, 118, 47, 115, 116, 100, 101, 114, 114>>
NoPath    == <<>>

\* What the caller's buffer may hold before the call.
FillBytes == {0, 170}
Buffers0  == {[i \in 0 .. MemLen - 1 |-> b] : b \in FillBytes}

\* __wasi_tty_t: the three flags the function reads (cols, rows, width,
\* height, echo and line_buffered are never read by it).
TtyRecords == [stdin_tty  : {__WASI_BOOL_FALSE, __WASI_BOOL_TRUE},
               stdout_tty : {__WASI_BOOL_FALSE, __WASI_BOOL_TRUE},
               stderr_tty : {__WASI_BOOL_FALSE, __WASI_BOOL_TRUE}]

\* strncpy(dst, src, n) that also stores a terminator at dst[n].
strncpy_terminating(dst, src, n) ==
    [i \in DOMAIN dst |->
        IF i < n THEN (IF i < Len(src) THEN src[i + 1] ELSE 0)
        ELSE IF i = n THEN 0
        ELSE dst[i]]

\* strncpy(dst, src, n): exactly n bytes are written, the first
\* min(n, strlen(src)) from src, the rest NUL; no terminator when
\* strlen(src) >= n.
strncpy(dst, src, n) ==
    [i \in DOMAIN dst |->
        IF i < n THEN (IF i < Len(src) THEN src[i + 1] ELSE 0)
        ELSE dst[i]]

\* TtyPath that lets any terminal flag vouch for a standard descriptor.
TtyPath_anyflag(fd, tty) ==
    LET any == \/ tty.stdin_tty = __WASI_BOOL_TRUE
               \/ tty.stdout_tty = __WASI_BOOL_TRUE
               \/ tty.stderr_tty = __WASI_BOOL_TRUE
    IN  IF fd = 0 /\ any THEN DevStdin
        ELSE IF fd = 1 /\ any THEN DevStdout
        ELSE IF fd = 2 /\ any THEN DevStderr
        ELSE NoPath

\* TtyPath with the stdout and stderr literals exchanged.
TtyPath_swapped(fd, tty) ==
    IF fd = 0 /\ tty.stdin_tty = __WASI_BOOL_TRUE THEN DevStdin
    ELSE IF fd = 1 /\ tty.stdout_tty = __WASI_BOOL_TRUE THEN DevStderr
    ELSE IF fd = 2 /\ tty.stderr_tty = __WASI_BOOL_TRUE THEN DevStdout
    ELSE NoPath

\* The three if-statements: the literal that is copied, or NoPath when
\* the function falls through to return ENOTTY.
TtyPath(fd, tty) ==
    IF fd = 0 /\ tty.stdin_tty = __WASI_BOOL_TRUE THEN DevStdin
    ELSE IF fd = 1 /\ tty.stdout_tty = __WASI_BOOL_TRUE THEN DevStdout
    ELSE IF fd = 2 /\ tty.stderr_tty = __WASI_BOOL_TRUE THEN DevStderr
    ELSE NoPath

\* int ttyname_r(int fd, char *name, size_t size), WASI branch; r and tty
\* are what __wasi_tty_get answered.
ttyname_r(fd, buf, size, r, tty) ==
    IF r # 0
    THEN [ret |-> 0, name |-> buf, errno |-> r]
    ELSE IF TtyPath(fd, tty) # NoPath
    THEN [ret |-> 0, name |-> strncpy(buf, TtyPath(fd, tty), size), errno |-> errno]
    ELSE [ret |-> ENOTTY, name |-> buf, errno |-> errno]

TtyInit ==
    /\ tty_call = NoCall
    /\ name0 = [i \in 0 .. MemLen - 1 |-> 0]
    /\ name = name0
    /\ errno = 0
    /\ tty_ret = 0

\* One call of ttyname_r by a caller that owns a buffer of MemLen bytes and
\* passes a capacity of at most MaxSize.
TtynameR ==
    /\ ~tty_call.called
    /\ \E fd \in -1 .. MaxFd, tty \in TtyRecords, size \in 0 .. MaxSize,
          buf \in Buffers0, r \in 0 .. MaxErrno :
        LET res == ttyname_r(fd, buf, size, r, tty) IN
        /\ tty_call' = [called |-> TRUE, fd |-> fd, size |-> size, r |-> r, tty |-> tty]
        /\ name0' = buf
        /\ name' = res.name
        /\ errno' = res.errno
        /\ tty_ret' = res.ret
    /\ UNCHANGED <<sig_vars, sn_vars, ps_vars>>

\* The caller has read the result and lets go of the buffer; errno stays
\* as the call left it.
TtyRelease ==
    /\ tty_call.called
    /\ tty_call' = NoCall
    /\ name0' = [i \in 0 .. MemLen - 1 |-> 0]
    /\ name' = name0'
    /\ tty_ret' = 0
    /\ UNCHANGED <<errno, sig_vars, sn_vars, ps_vars>>

\* ========================================================================
\* sigset_t
\* ========================================================================
_NSIG == 65
_NSIG_BPW == 32
_NSIG_WORDS == _NSIG \div _NSIG_BPW

\* A word (unsigned long) is modelled by the set of its bits that are 1;
\* only bits 0 .. _NSIG_BPW - 1 of a word are ever addressed.
ZeroWord == {}
\* union { unsigned long sig[_NSIG_WORDS]; unsigned long __bits[_NSIG_WORDS]; }
\* the two members alias the same words.
ZeroSigset == [w \in 0 .. _NSIG_WORDS - 1 |-> ZeroWord]

\* Bit i of a signal set lives in word i / _NSIG_BPW at bit i mod _NSIG_BPW.
SigWord(i) == i \div _NSIG_BPW
SigBit(i) == i % _NSIG_BPW
InSigset(i) == SigWord(i) \in DOMAIN ZeroSigset

SigInit ==
    /\ sig_pc = "fresh"
    /\ set = ZeroSigset
    /\ adjacent = ZeroWord
    /\ sig_i = -1
    /\ sig_j = -1
    /\ sig_test = FALSE

\* set.sig[i / _NSIG_BPW] |= 1UL << (i % _NSIG_BPW) on a fresh zero set.  A
\* store past the last word is undefined: it lands in the memory that
\* follows the object, or has no effect at all.
SigSetBit ==
    /\ sig_pc = "fresh"
    /\ \E i \in 0 .. _NSIG - 1 :
        /\ sig_i' = i
        /\ IF InSigset(i)
           THEN /\ set' = [set EXCEPT ![SigWord(i)] = @ \cup {SigBit(i)}]
                /\ adjacent' = adjacent
           ELSE /\ set' = set
                /\ \/ adjacent' = adjacent \cup {SigBit(i)}
                   \/ adjacent' = adjacent
    /\ sig_pc' = "set"
    /\ UNCHANGED <<sig_j, sig_test, tty_vars, sn_vars, ps_vars>>

\* (set.sig[j / _NSIG_BPW] >> (j % _NSIG_BPW)) & 1.  A load past the last
\* word is undefined: either answer can come back.
SigTestBit ==
    /\ sig_pc = "set"
    /\ \E j \in 0 .. _NSIG - 1 :
        /\ sig_j' = j
        /\ IF InSigset(j)
           THEN sig_test' = (SigBit(j) \in set[SigWord(j)])
           ELSE sig_test' \in BOOLEAN
    /\ sig_pc' = "tested"
    /\ UNCHANGED <<set, adjacent, sig_i, tty_vars, sn_vars, ps_vars>>

\* ========================================================================
\* pthread_setname_np
\* ========================================================================
\* errno.h of the upstream (Linux) build
ERANGE == 34

\* pthread_self() and one other thread of the process
Self == "self"
Threads == {Self, "other"}

\* Names are C strings, modelled by their characters without the NUL.
Rep(c, n) == [k \in 1 .. n |-> c]
NameLens == {0, 1, 15, 16, MaxNameLen}
Names == {Rep(c, n) : c \in {"a", "b"}, n \in NameLens}
Unnamed == <<>>

\* strnlen that stops one character early.
strnlen_short(s, n) == IF Len(s) < n - 1 THEN Len(s) ELSE n - 1

\* strnlen(s, n): the length of s, but at most n.
strnlen(s, n) == IF Len(s) < n THEN Len(s) ELSE n

\* The upstream function.  e_prctl, e_open and e_write are what the host
\* answers: 0 for success, otherwise the errno the failed call leaves.
pthread_setname_np_upstream(thread, nm, e_prctl, e_open, e_write) ==
    LET len == strnlen(nm, 16) IN
    IF len > 15
    THEN [ret |-> ERANGE, calls |-> <<>>, names |-> thread_name, errno |-> errno]
    ELSE IF thread = Self
    THEN [ret   |-> e_prctl,
          calls |-> <<"prctl">>,
          names |-> IF e_prctl = 0 THEN [thread_name EXCEPT ![thread] = nm]
                    ELSE thread_name,
          errno |-> IF e_prctl = 0 THEN errno ELSE e_prctl]
    ELSE IF e_open # 0
    THEN [ret   |-> e_open,
          calls |-> <<"pthread_setcancelstate", "open", "pthread_setcancelstate">>,
          names |-> thread_name,
          errno |-> e_open]
    ELSE IF e_write # 0
    THEN [ret   |-> e_write,
          calls |-> <<"pthread_setcancelstate", "open", "write", "close",
                      "pthread_setcancelstate">>,
          names |-> thread_name,
          errno |-> e_write]
    ELSE [ret   |-> 0,
          calls |-> <<"pthread_setcancelstate", "open", "write", "close",
                      "pthread_setcancelstate">>,
          names |-> [thread_name EXCEPT ![thread] = SubSeq(nm, 1, len)],
          errno |-> errno]

\* The WASI function with the upstream length check left in.
pthread_setname_np_wasi_checked(thread, nm) ==
    [ret |-> IF strnlen(nm, 16) > 15 THEN ERANGE ELSE 0,
     calls |-> <<>>, names |-> thread_name, errno |-> errno]

\* The WASI function: return 0.
pthread_setname_np_wasi(thread, nm) ==
    [ret |-> 0, calls |-> <<>>, names |-> thread_name, errno |-> errno]

SnInit ==
    /\ unmodified_upstream \in BOOLEAN
    /\ thread_name = [t \in Threads |-> Unnamed]
    /\ cancelstate = "PTHREAD_CANCEL_ENABLE"
    /\ hostcalls = <<>>
    /\ sn_call = NoCall
    /\ sn_ret = 0

\* One call in the build with __wasilibc_unmodified_upstream.  The host
\* lets at most one of prctl, open and write fail, with errno e (a call
\* after the first failing one is never issued).  The cancel state is
\* disabled and then set back to the saved cs inside the call.
SetnameUpstream ==
    /\ unmodified_upstream
    /\ \E thread \in Threads, nm \in Names,
          failing \in {"prctl", "open", "write"}, e \in 0 .. MaxErrno :
        LET e_prctl == IF failing = "prctl" THEN e ELSE 0
            e_open  == IF failing = "open" THEN e ELSE 0
            e_write == IF failing = "write" THEN e ELSE 0
            res == pthread_setname_np_upstream(thread, nm, e_prctl, e_open, e_write)
        IN
        /\ sn_call' = [called |-> TRUE, thread |-> thread, name |-> nm]
        /\ sn_ret' = res.ret
        /\ hostcalls' = res.calls
        /\ thread_name' = res.names
        /\ errno' = res.errno
    /\ UNCHANGED <<unmodified_upstream, cancelstate>>
    /\ UNCHANGED <<tty_call, name0, name, tty_ret, sig_vars, ps_vars>>

\* One call in the build without __wasilibc_unmodified_upstream.
SetnameWasi ==
    /\ ~unmodified_upstream
    /\ \E thread \in Threads, nm \in Names :
        LET res == pthread_setname_np_wasi(thread, nm) IN
        /\ sn_call' = [called |-> TRUE, thread |-> thread, name |-> nm]
        /\ sn_ret' = res.ret
        /\ hostcalls' = res.calls
        /\ thread_name' = res.names
        /\ errno' = res.errno
    /\ UNCHANGED <<unmodified_upstream, cancelstate>>
    /\ UNCHANGED <<tty_call, name0, name, tty_ret, sig_vars, ps_vars>>

\* ========================================================================
\* pselect (declared in sys/select.h; behaviour as the specification gives it)
\* ========================================================================
Masks == SUBSET (1 .. MaxSig)
WatchFds == 0 .. MaxWatchFd
NoArg == [rfds |-> {}, timeout_null |-> TRUE, mask_null |-> TRUE, mask |-> {}]
NoRet == [n |-> 0, rfds |-> {}]

\* A wait that leaves the supplied mask installed when it ends.
MaskAfterWait_kept(saved, active) == active

\* The mask in force once the wait has ended: the one saved on entry.
MaskAfterWait(saved, active) == saved

\* The mask in force during the wait: the supplied one, unless it is null.
MaskDuringWait(mask_null, mask, active) == IF mask_null THEN active ELSE mask

PsInit ==
    /\ sigmask = {}
    /\ ps_pc = "idle"
    /\ ps_arg = NoArg
    /\ ps_saved = {}
    /\ ps_before = {}
    /\ ps_ret = NoRet

\* The caller changes its mask between calls.
Sigprocmask ==
    /\ ps_pc # "waiting"
    /\ \E m \in Masks : sigmask' = m
    /\ ps_pc' = "idle"
    /\ UNCHANGED <<ps_arg, ps_saved, ps_before, ps_ret, tty_vars, sig_vars, sn_vars>>

\* pselect is entered: the mask is swapped and the wait begins, in one step.
PselectEnter ==
    /\ ps_pc # "waiting"
    /\ \E rfds \in SUBSET WatchFds, tn \in BOOLEAN, mn \in BOOLEAN, m \in Masks :
        /\ mn => m = {}
        /\ ps_arg' = [rfds |-> rfds, timeout_null |-> tn, mask_null |-> mn, mask |-> m]
        /\ sigmask' = MaskDuringWait(mn, m, sigmask)
    /\ ps_saved' = sigmask
    /\ ps_before' = sigmask
    /\ ps_pc' = "waiting"
    /\ UNCHANGED <<ps_ret, tty_vars, sig_vars, sn_vars>>

\* A watched descriptor is ready: the wait ends, the mask is restored, the
\* set is left holding the ready descriptors and their count is returned.
PselectReady ==
    /\ ps_pc = "waiting"
    /\ \E ready \in SUBSET ps_arg.rfds :
        /\ ready # {}
        /\ ps_ret' = [n |-> Cardinality(ready), rfds |-> ready]
    /\ sigmask' = MaskAfterWait(ps_saved, sigmask)
    /\ ps_pc' = "returned"
    /\ UNCHANGED <<ps_arg, ps_saved, ps_before, tty_vars, sig_vars, sn_vars>>

\* The timeout elapses: the wait ends, the mask is restored, 0 is returned.
PselectTimeout ==
    /\ ps_pc = "waiting"
    /\ ~ps_arg.timeout_null
    /\ ps_ret' = [n |-> 0, rfds |-> {}]
    /\ sigmask' = MaskAfterWait(ps_saved, sigmask)
    /\ ps_pc' = "returned"
    /\ UNCHANGED <<ps_arg, ps_saved, ps_before, tty_vars, sig_vars, sn_vars>>

\* ========================================================================
\* Specifications
\* ========================================================================
Init == TtyInit /\ SigInit /\ SnInit /\ PsInit

NextTty == TtynameR \/ TtyRelease
SpecTty == Init /\ [][NextTty]_vars

NextSigset == SigSetBit \/ SigTestBit
SpecSigset == Init /\ [][NextSigset]_vars

NextSetname == SetnameUpstream \/ SetnameWasi
SpecSetname == Init /\ [][NextSetname]_vars

NextPselect == Sigprocmask \/ PselectEnter \/ PselectReady \/ PselectTimeout
SpecPselect == Init /\ [][NextPselect]_vars

\* The four components share no state but errno, and each is checked under
\* its own specification above; this is their composition.
Next == NextTty \/ NextSigset \/ NextSetname \/ NextPselect
Spec == Init /\ [][Next]_vars

\* ========================================================================
\* Properties
\* ========================================================================
\* The canonical path of standard descriptor d.
CanonicalPath(d) ==
    CASE d = 0 -> DevStdin
      [] d = 1 -> DevStdout
      [] d = 2 -> DevStderr

\* The is-terminal flag of standard descriptor d in the host's answer.
OwnFlag(d, tty) ==
    CASE d = 0 -> tty.stdin_tty
      [] d = 1 -> tty.stdout_tty
      [] d = 2 -> tty.stderr_tty

\* buf holds the whole of path p and its NUL within its first cap bytes.
HoldsPath(buf, cap, p) ==
    /\ Len(p) < cap
    /\ \A i \in 0 .. Len(p) - 1 : buf[i] = p[i + 1]
    /\ buf[Len(p)] = 0

\* C1: when the host query __wasi_tty_get fails, ttyname_r returns a
\* non-zero error code that is not ENOTTY; it never returns 0.
C1_QueryFailureReported ==
    (tty_call.called /\ tty_call.r # 0) => (tty_ret # 0 /\ tty_ret # ENOTTY)

\* C2: whenever ttyname_r returns 0, the buffer holds the complete canonical
\* path of the descriptor followed by a NUL inside its first `size` bytes.
C2_SuccessMeansTerminatedPath ==
    (tty_call.called /\ tty_ret = 0) =>
        /\ tty_call.fd \in {0, 1, 2}
        /\ HoldsPath(name, tty_call.size, CanonicalPath(tty_call.fd))

\* C3: ttyname_r called with capacity 0 returns a non-zero error code and
\* writes nothing to the buffer, whatever the descriptor and host answer.
C3_ZeroCapacityFails ==
    (tty_call.called /\ tty_call.size = 0) => (tty_ret # 0 /\ name = name0)

\* C4: ttyname_r writes at most `size` bytes: no byte of the buffer at an
\* index >= size differs from what it was before the call.
C4_WritesWithinCapacity ==
    tty_call.called =>
        \A i \in tty_call.size .. MemLen - 1 : name[i] = name0[i]

\* C4 witness: "/dev/stdin" copied into a capacity of 10 fills bytes 0..9
\* and the byte at index 10 is still the caller's.
C4_Witness ==
    /\ tty_call.called /\ tty_call.r = 0 /\ tty_call.fd = 0 /\ tty_call.size = 10
    /\ tty_ret = 0
    /\ name0[9] = 170 /\ name[9] = 110
    /\ name0[10] = 170 /\ name[10] = 170

\* C5: when the host query succeeds, ttyname_r returns ENOTTY for every
\* descriptor outside {0,1,2} whatever the three flags are, and for every
\* descriptor in {0,1,2} whose own flag is false whatever the other two are.
C5_NotATerminal ==
    (/\ tty_call.called
     /\ tty_call.r = 0
     /\ \/ tty_call.fd \notin {0, 1, 2}
        \/ OwnFlag(tty_call.fd, tty_call.tty) = __WASI_BOOL_FALSE)
    => tty_ret = ENOTTY

\* C5 witness: descriptor 1 with stdout not a terminal while stdin and
\* stderr are.
C5_Witness ==
    /\ tty_call.called /\ tty_call.r = 0 /\ tty_call.fd = 1
    /\ tty_call.tty.stdout_tty = __WASI_BOOL_FALSE
    /\ tty_call.tty.stdin_tty = __WASI_BOOL_TRUE
    /\ tty_call.tty.stderr_tty = __WASI_BOOL_TRUE
    /\ tty_ret = ENOTTY

\* C6: when the host query succeeds, the descriptor d is 0, 1 or 2, its own
\* flag is true and size >= strlen(path) + 1, ttyname_r returns 0 and the
\* buffer holds exactly the d-th path, NUL-terminated; the other two flags
\* play no part.
C6_CanonicalPathWritten ==
    (/\ tty_call.called
     /\ tty_call.r = 0
     /\ tty_call.fd \in {0, 1, 2}
     /\ OwnFlag(tty_call.fd, tty_call.tty) = __WASI_BOOL_TRUE
     /\ tty_call.size >= Len(CanonicalPath(tty_call.fd)) + 1)
    => /\ tty_ret = 0
       /\ HoldsPath(name, tty_call.size, CanonicalPath(tty_call.fd))

\* C6 witness: descriptor 2, only stderr a terminal, capacity 12:
\* "/dev/stderr" and its NUL fill the 12 bytes.
C6_Witness ==
    /\ tty_call.called /\ tty_call.r = 0 /\ tty_call.fd = 2 /\ tty_call.size = 12
    /\ tty_call.tty.stderr_tty = __WASI_BOOL_TRUE
    /\ tty_call.tty.stdin_tty = __WASI_BOOL_FALSE
    /\ tty_call.tty.stdout_tty = __WASI_BOOL_FALSE
    /\ tty_ret = 0
    /\ name0[11] = 170
    /\ \A i \in 0 .. 10 : name[i] = DevStderr[i + 1]
    /\ name[11] = 0

\* C7: the declared sigset_t has storage for every bit i in 0 .. 64: setting
\* bit i in a zero set stays inside the declared words, makes the test of
\* bit i true and leaves the test of every other bit j false.
C7_SigsetHoldsEveryBit ==
    /\ sig_pc \in {"set", "tested"} => SigWord(sig_i) < _NSIG_WORDS
    /\ sig_pc = "tested" => (sig_test <=> (sig_j = sig_i))

\* C8: in the build without __wasilibc_unmodified_upstream every call of
\* pthread_setname_np returns 0, whatever the thread and however long the
\* name, and changes no thread's name and no other state.
C8_WasiSetnameIsNoOp ==
    [][~unmodified_upstream =>
          /\ sn_ret' = 0
          /\ hostcalls' = <<>>
          /\ thread_name' = thread_name
          /\ cancelstate' = cancelstate
          /\ errno' = errno
          /\ UNCHANGED <<tty_call, name0, name, tty_ret, sig_vars, ps_vars>>]_vars

\* C8 witness: a 17-character name given for the other thread, 0 returned,
\* the thread still unnamed.
C8_Witness ==
    /\ ~unmodified_upstream
    /\ sn_call.called /\ sn_call.thread = "other" /\ Len(sn_call.name) > 16
    /\ sn_ret = 0
    /\ thread_name["other"] = Unnamed

\* C9: in the upstream build a name longer than 15 characters is answered
\* with ERANGE before any host call (no prctl, open or write, cancel state
\* untouched, no name changed), and a name of at most 15 characters passes
\* the length check and reaches the naming call (prctl for the calling
\* thread, open of the comm file for another thread).
C9_UpstreamLengthCheck ==
    [][unmodified_upstream =>
          /\ Len(sn_call'.name) > 15 =>
                /\ sn_ret' = ERANGE
                /\ hostcalls' = <<>>
                /\ thread_name' = thread_name
                /\ cancelstate' = cancelstate
          /\ Len(sn_call'.name) <= 15 =>
                /\ sn_call'.thread = Self => hostcalls' = <<"prctl">>
                /\ sn_call'.thread # Self =>
                      /\ Len(hostcalls') >= 3
                      /\ hostcalls'[1] = "pthread_setcancelstate"
                      /\ hostcalls'[2] = "open"]_vars

\* C9 witness: a 16-character name rejected with ERANGE and no host call.
C9_Witness ==
    /\ unmodified_upstream
    /\ sn_call.called /\ Len(sn_call.name) = 16
    /\ sn_ret = ERANGE
    /\ hostcalls = <<>>

\* C10: with a non-null mask argument, the supplied mask is the active mask
\* exactly while pselect waits, and once pselect has returned, by readiness
\* or by timeout, the active mask is the one that was active before the call.
C10_MaskRestored ==
    /\ (ps_pc = "waiting" /\ ~ps_arg.mask_null) => sigmask = ps_arg.mask
    /\ (ps_pc = "returned" /\ ~ps_arg.mask_null) => sigmask = ps_before

\* C10 witness: pselect returned by timeout after waiting under a mask
\* different from the caller's, which is active again.
C10_Witness ==
    /\ ps_pc = "returned"
    /\ ~ps_arg.mask_null
    /\ ps_arg.mask # ps_before
    /\ ps_ret.n = 0
    /\ sigmask = ps_before
    /\ sigmask # {}

====
